---- MODULE Spec2Model ----
(***************************************************************************)
(* Model of the data-fetch-and-cache layer of j-raps-analytics:            *)
(*   src/src/utils/cache.py   RedisCache (two-tier cache) and              *)
(*                            cache_decorator (memoising wrapper)          *)
(*   src/src/data/nba_data.py RaptorsDataManager (wrapped upstream queries *)
(*                            and their thread-pool fan-out)               *)
(*                                                                         *)
(* Time is the value of time.time() in seconds.  The shared tier (Redis)   *)
(* is a service that outlives the web process; the fast tier               *)
(* (_memory_cache) and the counters (_cache_stats) belong to the           *)
(* RedisCache singleton of the process and start empty in a new process.   *)
(***************************************************************************)
EXTENDS Integers, Sequences, FiniteSets, TLC

VARIABLES
    now,       \* time.time()
    redisUp,   \* TRUE while the shared tier answers; FALSE: every call raises
    redis,     \* shared tier: key -> [val, exp, orig]
    mem,       \* fast tier: _memory_cache, key -> [val, exp, orig]
    stats,     \* _cache_stats
    last,      \* the operation that was just performed, and what it returned
    hist,      \* history of the wrapped queries: first results, upstream calls;
               \* and whether the upstream GAME_DATE strings parse as dates
    req        \* the requests being served by concurrent threads: for each
               \* thread its position in wrapper / get / set and its locals

vars == <<now, redisUp, redis, mem, stats, last, hist, req>>

(***************************************************************************)
(* Bounds of the model.                                                    *)
(***************************************************************************)
MaxTime == 90        \* the clock stops advancing here
MaxGets == 4         \* lookups counted between two clears
MaxApiCalls == 2     \* api_calls counted between two clears
MaxLookups == 2      \* cache lookups made by the wrapped queries
MaxRequests == 2     \* invocations each concurrent thread makes

TickStep == {30}
Keys == {"k1"}
TTLs == {60, 3600}

(***************************************************************************)
(* Python values.  A value is None, a polars DataFrame or a dict.          *)
(*   rows   the content, row by row                                        *)
(*   shape  "lists"   dict whose values are lists of equal length          *)
(*          "ragged"  dict whose values are lists of unequal length        *)
(*          "scalars" dict with a value that is no list                    *)
(*   dates  the value holds datetime.date objects (a parsed Date column)   *)
(***************************************************************************)
NoneVal == [form |-> "None", shape |-> "none", rows |-> <<>>, dates |-> FALSE]

DataFrame(rows, dates) ==
    [form |-> "DataFrame", shape |-> "lists", rows |-> rows, dates |-> dates]

Dict(shape, rows, dates) ==
    [form |-> "dict", shape |-> shape, rows |-> rows, dates |-> dates]

\* value.to_dict(as_series=False): column name -> list of python scalars
to_dict(df) == Dict("lists", df.rows, df.dates)

\* json.dumps raises TypeError on a datetime.date
Serialisable(v) == ~v.dates

\* json.dumps(value): the text stored in Redis
json_dumps(v) == [form |-> "json", shape |-> v.shape, rows |-> v.rows]

\* json.loads(text): always a dict here, of strings and numbers only
json_loads(s) == Dict(s.shape, s.rows, FALSE)

\* isinstance(data, dict) and all(isinstance(v, list) for v in data.values())
IsDictOfLists(d) == d.form = "dict" /\ d.shape \in {"lists", "ragged"}

\* pl.DataFrame(data) raises ShapeError on columns of unequal length
FrameRaises(d) == d.shape = "ragged"

(***************************************************************************)
(* Python dicts as functions with a finite domain.                         *)
(***************************************************************************)
EmptyDict == << >>

DictPut(d, k, v) == [x \in DOMAIN d \cup {k} |-> IF x = k THEN v ELSE d[x]]

DictDel(d, k) == [x \in DOMAIN d \ {k} |-> d[x]]

ZeroStats == [hits |-> 0, misses |-> 0, api_calls |-> 0]

\* The 5-minute lifetime of a fast-tier entry copied from the shared tier.
MemoryTTL == 300

(***************************************************************************)
(* The shared tier.  Redis drops a key when its expiry is reached.         *)
(***************************************************************************)
RedisLive(r, key, t) == key \in DOMAIN r /\ r[key].exp > t

RedisExpire(r, t) == [k \in {x \in DOMAIN r : r[x].exp > t} |-> r[k]]

(***************************************************************************)
(* RedisCache.  Each method is an operator on the view                     *)
(*   c = [mem, stats, redis]                                               *)
(* of the cache, at time t, with the shared tier up or not, and yields the *)
(* new view and the returned value.  An entry's orig is a history field:   *)
(* the expiry given by the set that stored the value.                      *)
(***************************************************************************)
View == [mem |-> mem, stats |-> stats, redis |-> redis]

\* RedisCache.get, the branch taken after the fast tier did not serve the key
GetFromRedis(c, key, t, up) ==
    IF up /\ RedisLive(c.redis, key, t)
    THEN LET e    == c.redis[key]
             hit  == [c EXCEPT !.stats.hits = @ + 1]
             data == json_loads(e.val)
         IN  IF IsDictOfLists(data) /\ FrameRaises(data)
             THEN \* pl.DataFrame raised after the hit was counted
                  [c |-> [hit EXCEPT !.stats.misses = @ + 1],
                   ret |-> NoneVal, orig |-> 0, tier |-> "none"]
             ELSE LET out == IF IsDictOfLists(data)
                             THEN DataFrame(data.rows, FALSE) ELSE data
                  IN  [c |-> [hit EXCEPT !.mem = DictPut(@, key,
                                 [val |-> out, exp |-> t + MemoryTTL,
                                  orig |-> e.orig])],
                       ret |-> out, orig |-> e.orig, tier |-> "redis"]
    ELSE [c |-> [c EXCEPT !.stats.misses = @ + 1],
          ret |-> NoneVal, orig |-> 0, tier |-> "none"]

\* RedisCache.get
CacheGet(c, key, t, up) ==
    IF key \in DOMAIN c.mem /\ c.mem[key].exp > t
    THEN [c |-> [c EXCEPT !.stats.hits = @ + 1],
          ret |-> c.mem[key].val, orig |-> c.mem[key].orig, tier |-> "memory"]
    ELSE GetFromRedis([c EXCEPT !.mem = DictDel(@, key)], key, t, up)

\* RedisCache.set with the fast tier written before the shared tier: the
\* entry is in _memory_cache when redis.setex raises.
CacheSetMemoryFirst(c, key, value, expire_in, t, up) ==
    LET v == IF value.form = "DataFrame" THEN to_dict(value) ELSE value
        m == [c EXCEPT !.mem = DictPut(@, key, [val |-> v, exp |-> t + expire_in,
                                                orig |-> t + expire_in])]
    IN  IF Serialisable(v) /\ up
        THEN [m EXCEPT !.redis = DictPut(@, key, [val |-> json_dumps(v),
                                                  exp |-> t + expire_in,
                                                  orig |-> t + expire_in])]
        ELSE m

\* RedisCache.set
CacheSet(c, key, value, expire_in, t, up) ==
    LET v == IF value.form = "DataFrame" THEN to_dict(value) ELSE value
    IN  IF Serialisable(v) /\ up
        THEN [c EXCEPT
                 !.redis = DictPut(@, key, [val |-> json_dumps(v),
                                            exp |-> t + expire_in,
                                            orig |-> t + expire_in]),
                 !.mem = DictPut(@, key, [val |-> v, exp |-> t + expire_in,
                                          orig |-> t + expire_in])]
        ELSE c   \* "Cache set error": nothing was written

\* RedisCache.delete
CacheDelete(c, key, up) ==
    IF up
    THEN [c EXCEPT !.redis = DictDel(@, key), !.mem = DictDel(@, key)]
    ELSE c   \* "Cache delete error": redis.delete raised first

\* RedisCache.track_api_call
TrackApiCall(c) == [c EXCEPT !.stats.api_calls = @ + 1]

\* RedisCache.clear
CacheClear(c, up) ==
    IF up
    THEN [c EXCEPT !.redis = EmptyDict, !.mem = EmptyDict, !.stats = ZeroStats]
    ELSE c   \* "Cache clear error": redis.flushall raised first

\* p / q rounded to the nearest integer, a tie to the even one: what
\* f"{x:.1f}" does to a float x that holds 10 * x exactly.
RoundHalfEven(p, q) ==
    LET f == p \div q
        r == p % q
    IN  IF 2 * r > q \/ (2 * r = q /\ f % 2 = 1) THEN f + 1 ELSE f

\* hit_rate with the digits after the first decimal cut off.
HitRateTruncated(hits, misses) ==
    IF hits + misses > 0 THEN (hits * 1000) \div (hits + misses) ELSE 0

\* RedisCache.get_stats: hit_rate = hits / total_requests * 100 if
\* total_requests > 0 else 0, formatted as f"{hit_rate:.1f}%".  The string
\* is written by its number of tenths of a percent: "66.7%" is 667.
HitRate(hits, misses) ==
    IF hits + misses > 0 THEN RoundHalfEven(hits * 1000, hits + misses) ELSE 0

\* RedisCache.get_stats (without its timestamp)
get_stats(c) ==
    [cache_hits |-> c.stats.hits,
     cache_misses |-> c.stats.misses,
     hit_rate |-> [tenths |-> HitRate(c.stats.hits, c.stats.misses),
                   suffix |-> "%"],
     api_calls |-> c.stats.api_calls,
     memory_cache_size |-> Cardinality(DOMAIN c.mem)]

(***************************************************************************)
(* Writing a view back.                                                    *)
(***************************************************************************)
Commit(c) ==
    /\ mem' = c.mem
    /\ stats' = c.stats
    /\ redis' = c.redis

Idle == [op |-> "none"]

\* No wrapped query was made yet.
NoHistory == [first |-> EmptyDict, upstream |-> 0, parsed |-> TRUE]

\* No request is being served by another thread.
NoRequests == << >>

(***************************************************************************)
(* The values a caller hands to RedisCache.set directly.                   *)
(***************************************************************************)
SetValues ==
    { DataFrame(<<110>>, FALSE),
      DataFrame(<<95>>, TRUE),
      Dict("lists", <<110>>, FALSE),
      Dict("ragged", <<3>>, FALSE),
      Dict("scalars", <<7>>, FALSE) }

(***************************************************************************)
(* Specification Spec: the cache store used directly.                      *)
(***************************************************************************)
\* RedisCache.__new__ / _initialize in a fresh process
Init ==
    /\ now = 0
    /\ redisUp = TRUE
    /\ redis = EmptyDict
    /\ mem = EmptyDict
    /\ stats = ZeroStats
    /\ last = Idle
    /\ hist = NoHistory
    /\ req = NoRequests

Tick ==
    /\ \E d \in TickStep : now + d <= MaxTime /\ now' = now + d
    /\ redis' = RedisExpire(redis, now')
    /\ last' = Idle
    /\ UNCHANGED <<redisUp, mem, stats, hist, req>>

\* The shared tier becomes unreachable, or reachable again.
RedisToggle ==
    /\ redisUp' = ~redisUp
    /\ last' = Idle
    /\ UNCHANGED <<now, redis, mem, stats, hist, req>>

\* The web process is replaced by a new one: _initialize runs again, the
\* shared tier keeps what it holds.
Restart ==
    /\ mem' = EmptyDict
    /\ stats' = ZeroStats
    /\ last' = Idle
    /\ UNCHANGED <<now, redisUp, redis, hist, req>>

Set(key, value, ttl) ==
    /\ Commit(CacheSet(View, key, value, ttl, now, redisUp))
    /\ last' = [op |-> "set", key |-> key, val |-> value, ttl |-> ttl]
    /\ UNCHANGED <<now, redisUp, hist, req>>

Get(key) ==
    /\ stats.hits + stats.misses < MaxGets
    /\ LET g == CacheGet(View, key, now, redisUp)
       IN  /\ Commit(g.c)
           /\ last' = [op |-> "get", key |-> key, ret |-> g.ret,
                       orig |-> g.orig,
                       after |-> IF \/ last.op = "clear"
                                    \/ /\ last.op \in {"set", "delete"}
                                       /\ last.key = key
                                 THEN last ELSE Idle]
    /\ UNCHANGED <<now, redisUp, hist, req>>

Delete(key) ==
    /\ Commit(CacheDelete(View, key, redisUp))
    /\ last' = [op |-> "delete", key |-> key]
    /\ UNCHANGED <<now, redisUp, hist, req>>

Track ==
    /\ stats.api_calls < MaxApiCalls
    /\ Commit(TrackApiCall(View))
    /\ last' = Idle
    /\ UNCHANGED <<now, redisUp, hist, req>>

Clear ==
    /\ Commit(CacheClear(View, redisUp))
    /\ last' = [op |-> "clear", known |-> DOMAIN mem \cup DOMAIN redis]
    /\ UNCHANGED <<now, redisUp, hist, req>>

Next ==
    \/ Tick
    \/ RedisToggle
    \/ Restart
    \/ \E k \in Keys, v \in SetValues, ttl \in TTLs : Set(k, v, ttl)
    \/ \E k \in Keys : Get(k)
    \/ \E k \in Keys : Delete(k)
    \/ Track
    \/ Clear

Spec == Init /\ [][Next]_vars

(***************************************************************************)
(* Claims about the cache store, checked under Spec.                       *)
(***************************************************************************)

\* C1: set(k, v, ttl) with ttl > 0 immediately followed by get(k) returns a
\* value equal to v, in the form (table or plain mapping) it was stored in.
C1_SetThenGetReturnsValue ==
    (last.op = "get" /\ last.after.op = "set" /\ last.after.ttl > 0)
        => last.ret = last.after.val

\* C2: get never returns a value whose expiry (the time of the set that
\* stored it plus that set's ttl) has been reached, whichever tier serves it.
C2_NeverReturnsExpired ==
    (last.op = "get" /\ last.ret # NoneVal) => now < last.orig

\* C3: after delete(k) returns, get(k) returns nothing, whatever the state
\* of the two tiers was, the shared tier being reachable or not.
C3_DeleteThenGetReturnsNothing ==
    (last.op = "get" /\ last.after.op = "delete") => last.ret = NoneVal

\* C4: after clear() returns, hits, misses and api_calls are 0 and get(k)
\* returns nothing for every key set before the clear, whatever the state of
\* the shared tier.
C4_ClearResetsEverything ==
    /\ last.op = "clear" => stats = ZeroStats
    /\ (last.op = "get" /\ last.after.op = "clear"
          /\ last.key \in last.after.known) => last.ret = NoneVal

\* C16: the expiry of a fast-tier entry is never later than the expiry of
\* the shared-tier entry it was copied from (orig), a 60-second entry
\* included.
C16_FastTierExpiryBounded ==
    \A k \in DOMAIN mem : mem[k].exp <= mem[k].orig

\* C18: every get changes exactly one of hits and misses, by one: hits when
\* it returns a value, misses when it returns nothing.
C18_OneCounterPerGet ==
    [][ last'.op = "get" =>
          /\ last'.ret # NoneVal =>
                stats' = [stats EXCEPT !.hits = @ + 1]
          /\ last'.ret = NoneVal =>
                stats' = [stats EXCEPT !.misses = @ + 1] ]_vars

(***************************************************************************)
(* RaptorsDataManager: the upstream data.                                  *)
(*                                                                         *)
(* A season is written by the year it starts in (2024 is "2024-25"); a     *)
(* call without a season passes None, written NoSeason.  A row of a table  *)
(* is [season, name, date, pts]; name is the player's name as its rank in  *)
(* alphabetical order (0: a team row) and date is the parsed GAME_DATE,    *)
(* written by the season the game falls in (0: null, the string did not    *)
(* parse).  Each upstream log holds one game, so no two rows of a table    *)
(* tie under a sort.                                                       *)
(***************************************************************************)
NoSeason == 0

\* self.seasons
Seasons == <<2023, 2024>>

\* roster_df["PLAYER_ID"], and player_mapping: PLAYER_ID -> PLAYER
RosterIds == <<7, 4>>

player_mapping(player_id) == IF player_id = 7 THEN 1 ELSE 2

TaskOutcomes == {"ok", "empty", "fail"}

\* the order in which the n futures of a pool complete
Orders(n) == {f \in [1..n -> 1..n] : \A i, j \in 1..n : f[i] = f[j] => i = j}

Row(season, name, date, pts) ==
    [season |-> season, name |-> name, date |-> date, pts |-> pts]

\* teamgamelog.TeamGameLog(team_id, season).get_data_frames()[0]
TeamGameLog(season, outcome, parsed) ==
    IF outcome = "ok"
    THEN << Row(season, 0, IF parsed THEN season ELSE 0, season - 1900) >>
    ELSE << >>

\* playergamelog.PlayerGameLog(player_id, season).get_data_frames()[0]
PlayerGameLog(player_id, season, outcome) ==
    IF outcome = "ok" THEN << [id |-> player_id, season |-> season] >> ELSE << >>

\* .sort("GAME_DATE", descending=True)
ByDateDesc(a, b) == a.date > b.date

\* .sort(["SEASON", "PLAYER_NAME", "GAME_DATE"], descending=[True, False, True])
PlayerStatsOrder(a, b) ==
    \/ a.season > b.season
    \/ a.season = b.season /\ a.name < b.name
    \/ a.season = b.season /\ a.name = b.name /\ a.date > b.date

\* pl.concat(frames)
RECURSIVE ConcatRows(_)
ConcatRows(frames) ==
    IF frames = << >> THEN << >>
    ELSE Head(frames).rows \o ConcatRows(Tail(frames))

concat(frames) ==
    DataFrame(ConcatRows(frames), \E i \in 1..Len(frames) : frames[i].dates)

\* What a function call yields: its value, or an exception; the upstream
\* network calls it issued and the rate-limit sleeps it took.
Returned(value, upstream, sleeps) ==
    [ret |-> value, raised |-> FALSE, upstream |-> upstream, sleeps |-> sleeps]

Raised(upstream, sleeps) ==
    [ret |-> NoneVal, raised |-> TRUE, upstream |-> upstream, sleeps |-> sleeps]

\* _fetch_season_games_async without its try/except: the upstream error
\* leaves the task.
FetchSeasonGamesUncaught(season, outcome, parsed) ==
    IF outcome = "fail"
    THEN Raised(1, 1)
    ELSE LET rows == TeamGameLog(season, outcome, parsed)
         IN  Returned(DataFrame(SortSeq(rows, ByDateDesc),
                                parsed /\ rows # << >>), 1, 1)

\* RaptorsDataManager._fetch_season_games_async
FetchSeasonGames(season, outcome, parsed) ==
    IF outcome = "fail"
    THEN Returned(NoneVal, 1, 1)    \* except Exception: return None
    ELSE LET rows == TeamGameLog(season, outcome, parsed)
         IN  Returned(DataFrame(SortSeq(rows, ByDateDesc),
                                parsed /\ rows # << >>), 1, 1)

\* RaptorsDataManager._fetch_player_stats_async
FetchPlayerStats(player_id, player_name, season, outcome) ==
    IF outcome = "fail"
    THEN Returned(NoneVal, 1, 1)    \* except Exception, then return None
    ELSE LET df == PlayerGameLog(player_id, season, outcome)
         IN  IF df # << >>
             THEN Returned(DataFrame(<< Row(season, player_name, 0,
                                           10 * player_id) >>, FALSE), 1, 1)
             ELSE Returned(NoneVal, 1, 1)

\* for future in as_completed(...): result = future.result();
\* if result is not None: append.  results[i] is what task i yields and
\* order the order in which the tasks complete.
RECURSIVE Collect(_, _)
Collect(results, order) ==
    IF order = << >> THEN << >>
    ELSE LET r == results[Head(order)]
         IN  (IF r.ret # NoneVal THEN << r.ret >> ELSE << >>)
                \o Collect(results, Tail(order))

\* future.result() re-raises what its task raised
AnyRaised(results) == \E i \in DOMAIN results : results[i].raised

RECURSIVE SumOf(_, _)
SumOf(results, field) ==
    IF results = << >> THEN 0
    ELSE Head(results)[field] + SumOf(Tail(results), field)

\* RaptorsDataManager.get_team_games (the wrapped function)
get_team_games(season, outcomes, order, parsed) ==
    IF season = NoSeason
    THEN LET results == [i \in 1..Len(Seasons) |->
                            FetchSeasonGames(Seasons[i], outcomes[i], parsed)]
             all_games == Collect(results, order)
             n == SumOf(results, "upstream")
             z == SumOf(results, "sleeps")
         IN  IF AnyRaised(results) THEN Raised(n, z)
             ELSE Returned(IF all_games # << >> THEN concat(all_games)
                           ELSE NoneVal, n, z)
    ELSE FetchSeasonGames(season, outcomes[1], parsed)

\* RaptorsDataManager.get_live_game_stats (the wrapped function)
get_live_game_stats(outcome) ==
    IF outcome = "game"
    THEN Returned(DataFrame(<< Row(NoSeason, 0, 0, 101) >>, FALSE), 1, 1)
    ELSE Returned(NoneVal, 1, 1)    \* no Raptors game, or except Exception

\* The fan-out of get_player_stats over one season s.
PlayerPool(s, outcomes) ==
    [i \in 1..Len(RosterIds) |->
        FetchPlayerStats(RosterIds[i], player_mapping(RosterIds[i]), s,
                         outcomes[i])]

\* strptime(pl.Date, "%b %d, %Y", strict=False) over the concatenated rows
ParseDates(rows, parsed) ==
    [i \in 1..Len(rows) |->
        [rows[i] EXCEPT !.date = IF parsed THEN rows[i].season ELSE 0]]

\* RaptorsDataManager.get_player_stats (the wrapped function)
get_player_stats(season, roster, outcomes, orders, parsed) ==
    IF roster = "fail"
    THEN Raised(1, 1)    \* CommonTeamRoster raised outside any try
    ELSE LET seasons_to_fetch == IF season # NoSeason THEN << season >>
                                 ELSE Seasons
             tasks == IF roster = "ok" THEN Len(RosterIds) ELSE 0
             pool(j) == IF roster = "ok"
                        THEN PlayerPool(seasons_to_fetch[j], outcomes[j])
                        ELSE << >>
             done(j) == IF roster = "ok" THEN Collect(pool(j), orders[j])
                        ELSE << >>
             all_stats == IF Len(seasons_to_fetch) = 1 THEN done(1)
                          ELSE done(1) \o done(2)
             n == 1 + tasks * Len(seasons_to_fetch)
             failed == \E j \in 1..Len(seasons_to_fetch) : AnyRaised(pool(j))
         IN  IF failed THEN Raised(n, n)
             ELSE IF all_stats = << >> THEN Returned(NoneVal, n, n)
             ELSE Returned(
                    DataFrame(SortSeq(ParseDates(ConcatRows(all_stats), parsed),
                                      PlayerStatsOrder), parsed), n, n)

\* group_by("SEASON").agg(mean, count).sort("SEASON", descending=True)
SeasonAverages(rows) ==
    LET of(s) == SelectSeq(rows, LAMBDA r : r.season = s)
        pts(s) == SumOf(of(s), "pts") \div Len(of(s))
        present == SelectSeq(<< Seasons[2], Seasons[1] >>,
                             LAMBDA s : of(s) # << >>)
    IN  [i \in 1..Len(present) |-> Row(present[i], 0, 0, pts(present[i]))]

\* RaptorsDataManager.get_season_comparison, after self.get_team_games()
\* returned games: a dict has no .lazy(), so a table served from the fast
\* tier in its stored form raises AttributeError.
season_comparison(games) ==
    IF games.raised THEN Raised(games.upstream, games.sleeps)
    ELSE IF games.ret = NoneVal
         THEN Returned(NoneVal, games.upstream, games.sleeps)
    ELSE IF games.ret.form # "DataFrame"
         THEN Raised(games.upstream, games.sleeps)
    ELSE Returned(DataFrame(SeasonAverages(games.ret.rows), FALSE),
                  games.upstream, games.sleeps)

(***************************************************************************)
(* The events of a task, in program order: "sleep" is self._rate_limit(),  *)
(* i.e. time.sleep(self.api_delay); an upstream network call is written by *)
(* the endpoint it constructs.  The events of a call are those of each of  *)
(* its tasks: the calling thread and the workers of its pools.             *)
(***************************************************************************)
UpstreamCalls == {"TeamGameLog", "PlayerGameLog", "CommonTeamRoster",
                  "ScoreBoard"}

\* _fetch_season_games_async
FetchSeasonGamesEvents == << "sleep", "TeamGameLog" >>

\* _fetch_player_stats_async
FetchPlayerStatsEvents == << "sleep", "PlayerGameLog" >>

\* get_player_stats fetching the roster with no self._rate_limit() before it
RosterEventsUnthrottled == << "CommonTeamRoster" >>

\* get_player_stats, the calling thread
RosterEvents == << "sleep", "CommonTeamRoster" >>

\* get_live_game_stats
LiveEvents == << "sleep", "ScoreBoard" >>

\* get_team_games: one task per season fetched
team_games_events(season) ==
    [i \in 1..(IF season = NoSeason THEN Len(Seasons) ELSE 1) |->
        FetchSeasonGamesEvents]

\* get_player_stats: the roster fetch, then one task per season and player
\* of the roster
player_stats_events(season, roster) ==
    << RosterEvents >> \o
    [i \in 1..(IF roster = "ok"
               THEN (IF season = NoSeason THEN Len(Seasons) ELSE 1)
                        * Len(RosterIds)
               ELSE 0) |-> FetchPlayerStatsEvents]

\* how often an event of the set kinds occurs in the tasks of a call
RECURSIVE CountEvents(_, _)
CountEvents(tasks, kinds) ==
    IF tasks = << >> THEN 0
    ELSE Len(SelectSeq(Head(tasks), LAMBDA e : e \in kinds))
            + CountEvents(Tail(tasks), kinds)

(***************************************************************************)
(* cache_decorator.                                                        *)
(***************************************************************************)
TeamGamesTTL == 3600
LiveTTL == 60
PlayerStatsTTL == 3600
ComparisonTTL == 3600

\* How the season argument is passed: get_team_games(), get_team_games(s)
\* or get_team_games(season=s).
Args(inst, form, season) ==
    IF form = "positional" THEN << inst, season >> ELSE << inst >>

Kwargs(form, season) ==
    IF form = "keyword" THEN << << "season", season >> >> ELSE << >>

\* key = f"{func.__name__}:{str(args)}:{str(kwargs)}".  args[0] is self,
\* whose str() is "<... RaptorsDataManager object at 0x...>": the instance.
CacheKey(name, args, kwargs) == << name, args, kwargs >>

\* wrapper: result = cache.get(key) was not None
WrapperHit(g) ==
    [c |-> g.c, ret |-> g.ret, raised |-> FALSE, hit |-> TRUE,
     upstream |-> 0, sleeps |-> 0]

\* wrapper without its "if result is not None": whatever func returned is
\* handed to cache.set.
WrapperMissStoresNone(c, key, expire_in, t, up, r) ==
    [c |-> IF ~r.raised THEN CacheSet(c, key, r.ret, expire_in, t, up) ELSE c,
     ret |-> r.ret, raised |-> r.raised, hit |-> FALSE,
     upstream |-> r.upstream, sleeps |-> r.sleeps]

\* wrapper, after track_api_call and func(*args, **kwargs) yielded r with
\* the cache as c: store a result that is not None
WrapperMiss(c, key, expire_in, t, up, r) ==
    [c |-> IF ~r.raised /\ r.ret # NoneVal
           THEN CacheSet(c, key, r.ret, expire_in, t, up) ELSE c,
     ret |-> r.ret, raised |-> r.raised, hit |-> FALSE,
     upstream |-> r.upstream, sleeps |-> r.sleeps]

\* wrapper around a function that does not use the cache itself
Wrapper(c, key, expire_in, t, up, r) ==
    LET g == CacheGet(c, key, t, up)
    IN  IF g.ret # NoneVal THEN WrapperHit(g)
        ELSE WrapperMiss(TrackApiCall(g.c), key, expire_in, t, up, r)

\* wrapper around get_season_comparison, which calls the wrapped
\* self.get_team_games() with no argument
WrappedSeasonComparison(c, inst, t, up, outcomes, order, parsed) ==
    LET key == CacheKey("get_season_comparison", << inst >>, << >>)
        g   == CacheGet(c, key, t, up)
        games == Wrapper(TrackApiCall(g.c),
                         CacheKey("get_team_games", Args(inst, "omitted", NoSeason),
                                  Kwargs("omitted", NoSeason)),
                         TeamGamesTTL, t, up,
                         get_team_games(NoSeason, outcomes, order, parsed))
    IN  IF g.ret # NoneVal THEN WrapperHit(g)
        ELSE WrapperMiss(games.c, key, ComparisonTTL, t, up,
                         season_comparison(games))

(***************************************************************************)
(* Specification SpecOrch: the consumer-facing queries of one              *)
(* RaptorsDataManager, as the dashboard calls them, with no clear between  *)
(* them.  What the upstream service answers to each network call, and the  *)
(* order in which the tasks of a pool complete, are chosen freely.         *)
(***************************************************************************)
OrchInsts == {1}
SeasonArgs == {NoSeason, 2024}
LiveOutcomes == {"game", "nogame", "fail"}

Lookups == stats.hits + stats.misses

RowSet(v) == {v.rows[i] : i \in 1..Len(v.rows)}

\* A call of the same key returned a result less than ttl seconds ago.
Within(key, ttl) ==
    key \in DOMAIN hist.first /\ now < hist.first[key].at + ttl

\* What is known of a fan-out beside its result: the rows of the tasks that
\* succeeded, how many of its tasks failed, and the result the same tasks
\* give when they complete in the order they were submitted in; and, of any
\* call, the events of its tasks.
NoFan == [fanout |-> FALSE, expect |-> {}, failed |-> 0, tasks |-> 0,
          canon |-> NoneVal, events |-> << >>]

\* A call served from the cache runs no task.
EventsOf(w, events) == IF w.upstream = 0 THEN << >> ELSE events

InitOrch ==
    /\ now = 0
    /\ redisUp = TRUE
    /\ redis = EmptyDict
    /\ mem = EmptyDict
    /\ stats = ZeroStats
    /\ last = Idle
    /\ \E parsed \in BOOLEAN : hist = [NoHistory EXCEPT !.parsed = parsed]
    /\ req = NoRequests

\* The call returns to the consumer: w is what the wrapper yields.
Finish(fn, key, ttl, w, fan) ==
    /\ Commit(w.c)
    /\ last' = [op |-> "call", fn |-> fn, key |-> key, ret |-> w.ret,
                raised |-> w.raised, hit |-> w.hit,
                upstream |-> w.upstream, sleeps |-> w.sleeps,
                api |-> w.c.stats.api_calls - stats.api_calls,
                within |-> Within(key, ttl),
                first |-> IF Within(key, ttl) THEN hist.first[key].rows
                          ELSE << >>,
                fan |-> fan]
    /\ hist' = [hist EXCEPT
                  !.upstream = @ + w.upstream,
                  !.first = IF ~w.raised /\ w.ret # NoneVal /\ ~Within(key, ttl)
                            THEN DictPut(@, key, [at |-> now, rows |-> w.ret.rows])
                            ELSE @]
    /\ UNCHANGED <<now, redisUp, req>>

\* The tasks of a fan-out: the seasons fetched, and per season the players.
SeasonsFetched(season) == IF season = NoSeason THEN Seasons ELSE << season >>

InOrder(n) == [i \in 1..n |-> i]

\* The rows a player fan-out over the seasons ss is expected to return.
ExpectedPlayerRows(ss, outcomes, parsed) ==
    { Row(ss[x[1]], player_mapping(RosterIds[x[2]]),
          IF parsed THEN ss[x[1]] ELSE 0, 10 * RosterIds[x[2]]) :
      x \in {y \in (1..Len(ss)) \X (1..Len(RosterIds)) :
                outcomes[y[1]][y[2]] = "ok"} }

\* In the actions below a value written \E x \in {e} is e, evaluated once.
\* outcomes[i] is what the upstream service answers to task i, order the
\* order in which the tasks complete.
CallTeamGames(inst, form, season, outcomes, order) ==
    /\ Lookups < MaxLookups
    /\ LET key == CacheKey("get_team_games", Args(inst, form, season),
                           Kwargs(form, season))
           n   == Len(SeasonsFetched(season))
       IN  \E r \in {get_team_games(season, outcomes, order, hist.parsed)} :
           \E w \in {Wrapper(View, key, TeamGamesTTL, now, redisUp, r)} :
             LET fan == IF season = NoSeason /\ ~w.hit
                        THEN [fanout |-> TRUE,
                              expect |-> UNION {
                                  RowSet([rows |-> TeamGameLog(Seasons[i],
                                             outcomes[i], hist.parsed)])
                                  : i \in 1..n },
                              failed |-> Cardinality(
                                  {i \in 1..n : outcomes[i] = "fail"}),
                              tasks |-> n,
                              canon |-> get_team_games(season, outcomes,
                                  InOrder(n), hist.parsed).ret,
                              events |-> team_games_events(season)]
                        ELSE [NoFan EXCEPT !.events =
                                 EventsOf(w, team_games_events(season))]
             IN  Finish("get_team_games", key, TeamGamesTTL, w, fan)

\* roster is what the upstream service answers to the roster fetch,
\* outcomes[j][i] what it answers for player i in the j-th season fetched.
CallPlayerStats(inst, form, season, roster, outcomes, orders) ==
    /\ Lookups < MaxLookups
    /\ LET key == CacheKey("get_player_stats", Args(inst, form, season),
                           Kwargs(form, season))
           n   == Len(RosterIds)
           ss  == SeasonsFetched(season)
           m   == Len(ss)
       IN  \E r \in {get_player_stats(season, roster, outcomes, orders,
                                      hist.parsed)} :
           \E w \in {Wrapper(View, key, PlayerStatsTTL, now, redisUp, r)} :
             LET fan == IF roster = "ok" /\ ~w.hit
                        THEN [fanout |-> TRUE,
                              expect |-> ExpectedPlayerRows(ss, outcomes,
                                                            hist.parsed),
                              failed |-> Cardinality(
                                  {x \in (1..m) \X (1..n) :
                                      outcomes[x[1]][x[2]] = "fail"}),
                              tasks |-> m * n,
                              canon |-> get_player_stats(season, roster,
                                  outcomes, [j \in 1..m |-> InOrder(n)],
                                  hist.parsed).ret,
                              events |-> player_stats_events(season, roster)]
                        ELSE [NoFan EXCEPT !.events =
                                 EventsOf(w, player_stats_events(season, roster))]
             IN  Finish("get_player_stats", key, PlayerStatsTTL, w, fan)

CallLiveGameStats(inst, outcome) ==
    /\ Lookups < MaxLookups
    /\ LET key == CacheKey("get_live_game_stats", << inst >>, << >>)
       IN  \E w \in {Wrapper(View, key, LiveTTL, now, redisUp,
                             get_live_game_stats(outcome))} :
             Finish("get_live_game_stats", key, LiveTTL, w,
                    [NoFan EXCEPT !.events = EventsOf(w, << LiveEvents >>)])

CallSeasonComparison(inst, outcomes, order) ==
    /\ Lookups + 1 < MaxLookups
    /\ LET key == CacheKey("get_season_comparison", << inst >>, << >>)
       IN  \E w \in {WrappedSeasonComparison(View, inst, now, redisUp,
                                             outcomes, order, hist.parsed)} :
             Finish("get_season_comparison", key, ComparisonTTL, w,
                    [NoFan EXCEPT !.events =
                        EventsOf(w, team_games_events(NoSeason))])

\* Every task of a call gets the same answer, and the tasks complete in
\* the order they were submitted in.
Uniform(n) == {[i \in 1..n |-> o] : o \in TaskOutcomes}

NextOrch ==
    \/ Tick
    \/ RedisToggle
    \/ \E i \in OrchInsts, s \in SeasonArgs :
         \E o \in Uniform(Len(SeasonsFetched(s))) :
           CallTeamGames(i, "positional", s, o, InOrder(Len(SeasonsFetched(s))))
    \/ \E i \in OrchInsts, s \in SeasonArgs, roster \in TaskOutcomes :
         \E o \in Uniform(Len(RosterIds)) :
           CallPlayerStats(i, "positional", s, roster,
                           [j \in 1..Len(SeasonsFetched(s)) |-> o],
                           [j \in 1..Len(SeasonsFetched(s)) |->
                               InOrder(Len(RosterIds))])
    \/ \E i \in OrchInsts, o \in LiveOutcomes : CallLiveGameStats(i, o)
    \/ \E i \in OrchInsts, o \in Uniform(Len(Seasons)) :
         CallSeasonComparison(i, o, InOrder(Len(Seasons)))

SpecOrch == InitOrch /\ [][NextOrch]_vars

(***************************************************************************)
(* Specification SpecFan: one query made through the wrapper of a fresh    *)
(* process, every task of its fan-out answered independently and the tasks *)
(* completing in any order.                                                *)
(***************************************************************************)
NextFan ==
    \/ Lookups = 0 /\ Tick
    \/ Lookups = 0 /\ RedisToggle
    \/ \E i \in OrchInsts, s \in SeasonArgs :
         \E o \in [1..Len(SeasonsFetched(s)) -> TaskOutcomes],
            order \in Orders(Len(SeasonsFetched(s))) :
           Lookups = 0 /\ CallTeamGames(i, "positional", s, o, order)
    \/ \E i \in OrchInsts, s \in SeasonArgs, roster \in TaskOutcomes :
         \E o \in [1..Len(SeasonsFetched(s)) ->
                      [1..Len(RosterIds) -> TaskOutcomes]],
            orders \in [1..Len(SeasonsFetched(s)) -> Orders(Len(RosterIds))] :
           Lookups = 0 /\ CallPlayerStats(i, "positional", s, roster, o, orders)
    \/ \E i \in OrchInsts, o \in LiveOutcomes :
         Lookups = 0 /\ CallLiveGameStats(i, o)
    \/ \E i \in OrchInsts, o \in [1..Len(Seasons) -> TaskOutcomes],
          order \in Orders(Len(Seasons)) :
         Lookups = 0 /\ CallSeasonComparison(i, o, order)

SpecFan == InitOrch /\ [][NextFan]_vars

(***************************************************************************)
(* Specification SpecKey: the cache key cache_decorator computes, for two  *)
(* calls made one after the other, through any instance and with the       *)
(* season passed in any way.                                               *)
(***************************************************************************)
KeyInsts == {1, 2}
Forms == {"omitted", "positional", "keyword"}
SeasonQueries == {"get_team_games", "get_player_stats"}
PlainQueries == {"get_live_game_stats", "get_season_comparison"}

\* wrapper, up to the key; season is the season the query is about
KeyOf(name, inst, form, season) ==
    /\ form = "omitted" => season = NoSeason
    /\ last' = [op |-> "key", fn |-> name, season |-> season,
                key |-> CacheKey(name, Args(inst, form, season),
                                 Kwargs(form, season)),
                prev |-> IF last.op = "key"
                         THEN [last EXCEPT !.prev = Idle] ELSE Idle]
    /\ UNCHANGED <<now, redisUp, redis, mem, stats, hist, req>>

NextKey ==
    \/ \E name \in SeasonQueries, i \in KeyInsts, f \in Forms,
          s \in SeasonArgs : KeyOf(name, i, f, s)
    \/ \E name \in PlainQueries, i \in KeyInsts :
          KeyOf(name, i, "omitted", NoSeason)

SpecKey == Init /\ [][NextKey]_vars

(***************************************************************************)
(* Claims about the wrapped queries.                                       *)
(***************************************************************************)

\* C5: once an invocation of a wrapped operation returned a result, a second
\* invocation with the same arguments within the TTL window makes no
\* upstream call, takes no rate-limit sleep, leaves api_calls unchanged and
\* returns the rows the first one returned.  (SpecOrch)
C5_SecondCallServedFromCache ==
    (last.op = "call" /\ last.within) =>
        /\ ~last.raised
        /\ last.upstream = 0 /\ last.sleeps = 0 /\ last.api = 0
        /\ last.ret.rows = last.first

\* C6: with no clear in between, api_calls equals the number of upstream
\* network calls issued so far.  (SpecOrch)
C6_ApiCallsCountUpstreamCalls == stats.api_calls = hist.upstream

\* C7: two invocations of the same wrapped operation about the same season
\* get the same cache key, whichever instance they go through and however
\* the season is passed.  (SpecKey)
C7_SameQuerySameKey ==
    (last.op = "key" /\ last.prev.op = "key"
        /\ last.fn = last.prev.fn /\ last.season = last.prev.season)
        => last.key = last.prev.key

\* C8: in a fan-out no exception of a fetch task reaches the caller, the
\* combined dataset holds the rows of exactly the tasks that succeeded with
\* a non-empty result, and it is None when every task failed.  (SpecFan)
C8_FanOutKeepsSuccesses ==
    (last.op = "call" /\ last.fan.fanout) =>
        /\ ~last.raised
        /\ RowSet(last.ret) = last.fan.expect
        /\ Len(last.ret.rows) = Cardinality(last.fan.expect)
        /\ last.fan.failed = last.fan.tasks => last.ret = NoneVal

\* C8 witness: a fan-out in which a task failed and another returned rows.
C8_PartialFailureSeen ==
    /\ last.op = "call" /\ last.fan.fanout
    /\ last.fan.failed >= 1 /\ last.fan.expect # {}
    /\ RowSet(last.ret) = last.fan.expect

\* C9: the rows of a fan-out's result are in the same order whatever the
\* order in which its tasks complete.  (SpecFan)
C9_OrderIndependentOfCompletion ==
    (last.op = "call" /\ last.fan.fanout) => last.ret = last.fan.canon

\* C10: no consumer-facing query raises: an upstream failure surfaces only
\* as absence of data.  (SpecOrch)
C10_NoUpstreamFailureEscapes ==
    last.op = "call" => ~last.raised

\* C17: in every task of every call, each upstream network call comes
\* right after one rate-limit sleep of the same task, which no other sleep
\* precedes directly; so a call takes as many sleeps as it issues upstream
\* calls.  (SpecFan)
C17_EachCallAfterOneSleep ==
    last.op = "call" =>
        /\ \A j \in DOMAIN last.fan.events :
             LET e == last.fan.events[j]
             IN  \A i \in DOMAIN e :
                    e[i] \in UpstreamCalls =>
                        /\ i > 1 /\ e[i - 1] = "sleep"
                        /\ i > 2 => e[i - 2] # "sleep"
        /\ CountEvents(last.fan.events, UpstreamCalls) = last.upstream
        /\ CountEvents(last.fan.events, {"sleep"}) = last.sleeps

\* C17 witness: get_player_stats() fetched the roster and, for both seasons,
\* each player's log: five upstream calls in five tasks.
C17_PlayerFanOutThrottled ==
    /\ last.op = "call" /\ last.fn = "get_player_stats" /\ ~last.hit
    /\ Len(last.fan.events) = 1 + Len(Seasons) * Len(RosterIds)
    /\ last.upstream = Len(last.fan.events)
    /\ last.sleeps = last.upstream

(***************************************************************************)
(* Specification SpecStore: the cache store used directly, as under Spec,  *)
(* and through cache_decorator around an operation that may return None,   *)
(* an empty table or a table, or raise.                                    *)
(***************************************************************************)
\* What func(*args, **kwargs) yields in wrapper
FuncResults ==
    { Returned(NoneVal, 1, 1),
      Returned(DataFrame(<< >>, FALSE), 1, 1),
      Returned(DataFrame(<<110>>, FALSE), 1, 1),
      Raised(1, 1) }

\* if key in self._memory_cache ... if expiry > time.time()
InFastTier(key) == key \in DOMAIN mem /\ mem[key].exp > now

\* One invocation of a wrapped operation whose key is key and whose
\* function yields r; held: the fast tier served the key.
Memoise(key, r, ttl) ==
    /\ Lookups < MaxGets
    /\ stats.api_calls < MaxApiCalls
    /\ \E w \in {Wrapper(View, key, ttl, now, redisUp, r)} :
         /\ Commit(w.c)
         /\ last' = [op |-> "memo", key |-> key, ttl |-> ttl, ret |-> w.ret,
                     raised |-> w.raised, hit |-> w.hit, fresh |-> r,
                     held |-> InFastTier(key)]
    /\ UNCHANGED <<now, redisUp, hist, req>>

\* display_cache_stats: stats = cache.get_stats()
GetStats ==
    /\ last' = [op |-> "stats", ret |-> get_stats(View)]
    /\ UNCHANGED <<now, redisUp, redis, mem, stats, hist, req>>

NextStore ==
    \/ Next
    \/ \E k \in Keys, r \in FuncResults : Memoise(k, r, LiveTTL)
    \/ GetStats

SpecStore == Init /\ [][NextStore]_vars

(***************************************************************************)
(* Claims about the cache store and cache_decorator, checked under         *)
(* SpecStore.  Every method of RedisCache runs its shared-tier calls in    *)
(* one try whose except branch only prints: the ELSE branches of the       *)
(* operators above, after which the method returns.                        *)
(***************************************************************************)

\* C11: while the shared tier is unavailable, a get of a key the fast tier
\* does not hold returns nothing and counts one miss; a set writes to
\* neither tier; delete and clear return with the shared tier and the
\* counters as they were; and a wrapped operation whose key the fast tier
\* does not hold returns, or raises, what its function did, and stores
\* nothing.
C11_SharedTierDown ==
    [][ ~redisUp =>
          /\ (last'.op = "get" /\ ~InFastTier(last'.key)) =>
                /\ last'.ret = NoneVal
                /\ stats' = [stats EXCEPT !.misses = @ + 1]
          /\ last'.op = "set" => mem' = mem /\ redis' = redis /\ stats' = stats
          /\ last'.op \in {"delete", "clear"} =>
                redis' = redis /\ stats' = stats
          /\ (last'.op = "memo" /\ ~InFastTier(last'.key)) =>
                /\ last'.ret = last'.fresh.ret
                /\ last'.raised = last'.fresh.raised
                /\ redis' = redis
                /\ last'.key \notin DOMAIN mem' ]_vars

\* C11 witness: with the shared tier down, a wrapped operation whose key
\* the shared tier holds, and the fast tier does not, returned its table.
C11_ComputedWhileDown ==
    /\ ~redisUp
    /\ last.op = "memo" /\ ~last.held /\ ~last.hit
    /\ last.ret = last.fresh.ret /\ last.ret # NoneVal
    /\ last.key \in DOMAIN redis

\* a table with no rows
IsEmptyTable(v) == v.form = "DataFrame" /\ v.rows = << >>

\* C12: on a cache miss, an empty table returned by the wrapped operation
\* is written to neither tier.
C12_EmptyResultNotStored ==
    [][ (last'.op = "memo" /\ ~last'.hit /\ IsEmptyTable(last'.fresh.ret)) =>
          /\ redis' = redis
          /\ last'.key \notin DOMAIN mem' ]_vars

\* C13: when the wrapped operation raises, or returns None, the caller gets
\* the exception, or None; neither tier gains an entry (the fast tier loses
\* at most the expired entry of the key, dropped by get); and a lookup of
\* the key right after misses, so that the next invocation calls the
\* operation again.
C13_NoNegativeCaching ==
    [][ (last'.op = "memo" /\ ~last'.hit
            /\ (last'.fresh.raised \/ last'.fresh.ret = NoneVal)) =>
          /\ last'.raised = last'.fresh.raised
          /\ last'.ret = NoneVal
          /\ redis' = redis
          /\ mem' = DictDel(mem, last'.key)
          /\ CacheGet([mem |-> mem', stats |-> stats', redis |-> redis'],
                      last'.key, now, redisUp).ret = NoneVal ]_vars

\* C13 witness: a wrapped operation raised, the exception reached the
\* caller, and neither tier holds its key.
C13_RaisedAndNothingStored ==
    /\ last.op = "memo" /\ ~last.hit
    /\ last.fresh.raised /\ last.raised
    /\ last.key \notin DOMAIN mem /\ last.key \notin DOMAIN redis

\* C15: with the counters at h hits and m misses, the hit_rate that
\* get_stats reports denotes a ratio within half a thousandth (the rounding
\* of a percentage to one decimal) of h / (h + m), and denotes 0 when
\* h + m = 0.
C15_HitRateIsHitsOverLookups ==
    last.op = "stats" =>
        LET h == stats.hits
            m == stats.misses
            tenths == last.ret.hit_rate.tenths
            diff == tenths * (h + m) - 1000 * h
        IN  /\ last.ret.hit_rate.suffix = "%"
            /\ h + m = 0 => tenths = 0
            /\ h + m > 0 => 2 * (IF diff < 0 THEN -diff ELSE diff) <= h + m

\* C15 witness: get_stats after two hits and one miss reports "66.7%".
C15_TwoThirdsReported ==
    /\ last.op = "stats"
    /\ stats.hits = 2 /\ stats.misses = 1
    /\ last.ret.hit_rate.tenths = 667

(***************************************************************************)
(* Specification SpecRace: two threads of the web process (two sessions of *)
(* the dashboard) invoke a wrapped operation on the RedisCache singleton   *)
(* at the same time.  There is no lock in RedisCache: a thread may be      *)
(* preempted between any two statements, and between the read and the      *)
(* write of `self._cache_stats[c] += 1`.  Time does not advance and        *)
(* clear() is not called.  req[t] is thread t's position (pc) and locals:  *)
(*   n      invocations started so far                                     *)
(*   reg    the counter value read by the += in progress                   *)
(*   ret    the value get is about to return; orig its history field       *)
(*   val    the result of func, handed to set                              *)
(*   wrote  the invocation ended with set having written both tiers        *)
(***************************************************************************)
Threads == {1, 2}

ThreadIdle == [pc |-> "idle", key |-> "", n |-> 0, reg |-> 0, ret |-> NoneVal,
               orig |-> 0, val |-> NoneVal, wrote |-> FALSE]

\* The counter a thread at pc is incrementing, and where it goes next.
Counter(pc) ==
    CASE pc \in {"hit_load", "hit_store", "rhit_load", "rhit_store"} -> "hits"
      [] pc \in {"miss_load", "miss_store"} -> "misses"
      [] pc \in {"api_load", "api_store"} -> "api_calls"

AfterLoad(pc) ==
    CASE pc = "hit_load" -> "hit_store"
      [] pc = "rhit_load" -> "rhit_store"
      [] pc = "miss_load" -> "miss_store"
      [] pc = "api_load" -> "api_store"

AfterStore(pc) ==
    CASE pc = "hit_store" -> "idle"          \* get returns, wrapper returns
      [] pc = "rhit_store" -> "rehydrate"
      [] pc = "miss_store" -> "api_load"     \* get returns None; track_api_call
      [] pc = "api_store" -> "func"

\* What func returns to thread t: None, or the table upstream serves then.
ThreadResults(t) == {NoneVal, DataFrame(<<100 + t>>, FALSE)}

InitRace ==
    /\ now = 0
    /\ redisUp = TRUE
    /\ redis = EmptyDict
    /\ mem = EmptyDict
    /\ stats = ZeroStats
    /\ last = Idle
    /\ hist = NoHistory
    /\ req = [t \in Threads |-> ThreadIdle]

\* wrapper is entered: key is computed and cache.get(key) called
StartRequest(t, key) ==
    /\ req[t].pc = "idle" /\ req[t].n < MaxRequests
    /\ req' = [req EXCEPT ![t] = [ThreadIdle EXCEPT !.pc = "get", !.key = key,
                                                    !.n = req[t].n + 1]]
    /\ UNCHANGED <<now, redisUp, redis, mem, stats, last, hist>>

\* RedisCache.get, the fast tier
MemLookup(t) ==
    /\ req[t].pc = "get"
    /\ IF InFastTier(req[t].key)
       THEN /\ req' = [req EXCEPT ![t].pc = "hit_load",
                                  ![t].ret = mem[req[t].key].val,
                                  ![t].orig = mem[req[t].key].orig]
            /\ mem' = mem
       ELSE /\ req' = [req EXCEPT ![t].pc = "redis_get"]
            /\ mem' = DictDel(mem, req[t].key)
    /\ UNCHANGED <<now, redisUp, redis, stats, last, hist>>

\* RedisCache.get: value = self.redis.get(key); if value:
RedisGet(t) ==
    /\ req[t].pc = "redis_get"
    /\ IF redisUp /\ RedisLive(redis, req[t].key, now)
       THEN LET data == json_loads(redis[req[t].key].val)
            IN  req' = [req EXCEPT ![t].pc = "rhit_load",
                           ![t].ret = IF IsDictOfLists(data)
                                      THEN DataFrame(data.rows, FALSE) ELSE data,
                           ![t].orig = redis[req[t].key].orig]
       ELSE req' = [req EXCEPT ![t].pc = "miss_load"]
    /\ UNCHANGED <<now, redisUp, redis, mem, stats, last, hist>>

\* self._cache_stats[c] += 1, the read
CountLoad(t) ==
    /\ req[t].pc \in {"hit_load", "rhit_load", "miss_load", "api_load"}
    /\ req' = [req EXCEPT ![t].reg = stats[Counter(req[t].pc)],
                          ![t].pc = AfterLoad(req[t].pc)]
    /\ UNCHANGED <<now, redisUp, redis, mem, stats, last, hist>>

\* self._cache_stats[c] += 1, the write
CountStore(t) ==
    /\ req[t].pc \in {"hit_store", "rhit_store", "miss_store", "api_store"}
    /\ stats' = [stats EXCEPT ![Counter(req[t].pc)] = req[t].reg + 1]
    /\ req' = [req EXCEPT ![t].pc = AfterStore(req[t].pc), ![t].reg = 0]
    /\ UNCHANGED <<now, redisUp, redis, mem, last, hist>>

\* RedisCache.get: self._memory_cache[key] = (data, time.time() + 300)
Rehydrate(t) ==
    /\ req[t].pc = "rehydrate"
    /\ mem' = DictPut(mem, req[t].key, [val |-> req[t].ret,
                                        exp |-> now + MemoryTTL,
                                        orig |-> req[t].orig])
    /\ req' = [req EXCEPT ![t].pc = "idle"]
    /\ UNCHANGED <<now, redisUp, redis, stats, last, hist>>

\* wrapper: result = func(*args, **kwargs); if result is not None:
Func(t, r) ==
    /\ req[t].pc = "func"
    /\ req' = [req EXCEPT ![t].pc = IF r = NoneVal THEN "idle" ELSE "setex",
                          ![t].val = r]
    /\ UNCHANGED <<now, redisUp, redis, mem, stats, last, hist>>

\* RedisCache.set: to_dict, then self.redis.setex(key, expire_in, json.dumps)
Setex(t, expire_in) ==
    /\ req[t].pc = "setex"
    /\ LET v == IF req[t].val.form = "DataFrame" THEN to_dict(req[t].val)
                ELSE req[t].val
       IN  IF Serialisable(v) /\ redisUp
           THEN /\ redis' = DictPut(redis, req[t].key,
                                    [val |-> json_dumps(v),
                                     exp |-> now + expire_in,
                                     orig |-> now + expire_in])
                /\ req' = [req EXCEPT ![t].pc = "mem_write", ![t].val = v]
           ELSE /\ redis' = redis     \* "Cache set error"
                /\ req' = [req EXCEPT ![t].pc = "idle"]
    /\ UNCHANGED <<now, redisUp, mem, stats, last, hist>>

\* RedisCache.set: self._memory_cache[key] = (value, time.time() + expire_in)
MemWrite(t, expire_in) ==
    /\ req[t].pc = "mem_write"
    /\ mem' = DictPut(mem, req[t].key, [val |-> req[t].val,
                                        exp |-> now + expire_in,
                                        orig |-> now + expire_in])
    /\ req' = [req EXCEPT ![t].pc = "idle", ![t].wrote = TRUE]
    /\ UNCHANGED <<now, redisUp, redis, stats, last, hist>>

NextRace ==
    \/ RedisToggle
    \/ \E t \in Threads, k \in Keys : StartRequest(t, k)
    \/ \E t \in Threads : MemLookup(t)
    \/ \E t \in Threads : RedisGet(t)
    \/ \E t \in Threads : CountLoad(t)
    \/ \E t \in Threads : CountStore(t)
    \/ \E t \in Threads : Rehydrate(t)
    \/ \E t \in Threads : \E r \in ThreadResults(t) : Func(t, r)
    \/ \E t \in Threads : Setex(t, LiveTTL)
    \/ \E t \in Threads : MemWrite(t, LiveTTL)

SpecRace == InitRace /\ [][NextRace]_vars

(***************************************************************************)
(* Claims about concurrent requests, checked under SpecRace.               *)
(***************************************************************************)

\* C14: no step of any interleaving of concurrent requests decreases hits,
\* misses or api_calls (clear() is never called under SpecRace).
C14_CountersMonotone ==
    [][ /\ stats'.hits >= stats.hits
        /\ stats'.misses >= stats.misses
        /\ stats'.api_calls >= stats.api_calls ]_vars

\* C19: once two concurrent invocations that both missed on one key have
\* both completed their set, the fast tier and the shared tier hold the
\* value, and the expiry, written by the same one of them.
C19_LastWriteWinsAcrossTiers ==
    (/\ \A t \in Threads : req[t].pc = "idle" /\ req[t].wrote
     /\ \A t, u \in Threads : req[t].key = req[u].key) =>
        \A t \in Threads :
            /\ req[t].key \in DOMAIN mem /\ req[t].key \in DOMAIN redis
            /\ json_dumps(mem[req[t].key].val) = redis[req[t].key].val
            /\ mem[req[t].key].exp = redis[req[t].key].exp

====
